---------------------------- MODULE Spec2Model ----------------------------
(***************************************************************************)
(* A model of plot_layout_all_in_one.py: input validation, the free-space  *)
(* arithmetic, the per-object admission test (find_fitting_objects), the   *)
(* shelf layout (_simple_shelf_layout) and the two layout calls made by    *)
(* visualize_plot.                                                         *)
(*                                                                         *)
(* Numbers.  Lengths are integers counting eighths of a metre (8 = 1 m,    *)
(* 4 = the 0.5 m gap), so areas count 1/64 m^2.  Every such value is a     *)
(* dyadic rational that a Python float holds exactly, hence the float      *)
(* sums, products and comparisons of the source are exact on these inputs. *)
(* The one inexact operation is round(x, 2): its result is a whole number  *)
(* of hundredths, which the model keeps as an integer count of hundredths  *)
(* ("cents").  An area a (in 1/64) is compared with c cents as             *)
(* 100*a <= 64*c.                                                          *)
(*                                                                         *)
(* A Python value that may or may not be a number is a record              *)
(* [num, v]; a value that may or may not be a list is [islist, items]; a   *)
(* list element that may or may not be a dict is [isdict, keys, name,      *)
(* width, length]; a name that may or may not be a str is [str, chars].    *)
(***************************************************************************)
EXTENDS Integers, Sequences, FiniteSets, TLC

VARIABLES
    \* arguments of find_fitting_objects / visualize_plot
    plot_width, plot_length, restricted_border, existing_objects, new_objects,
    \* find_fitting_objects: position, raised exception, locals, returned dict
    pc, exc, free_space, fitting_names, i, result,
    \* history: per candidate, whether line 273 appended its name; whether
    \* _areas or a candidate area was computed; calls made; the previous call
    admitted, area_done, calls, prev_new, prev_admitted,
    \* _simple_shelf_layout: arguments, locals, position
    items, start_x, start_y, max_width, max_length, gap,
    placed, x, y, row_h, k, lpc,
    \* visualize_plot: argument and the two layout results
    fitting_objects, existing_pos, fitting_pos

fitVars == <<plot_width, plot_length, restricted_border, existing_objects,
             new_objects, pc, exc, free_space, fitting_names, i, result,
             admitted, area_done, calls, prev_new, prev_admitted>>
layoutVars == <<items, start_x, start_y, max_width, max_length, gap,
                placed, x, y, row_h, k, lpc>>
vizVars == <<fitting_objects, existing_pos, fitting_pos>>
vars == <<fitVars, layoutVars, vizVars>>

-----------------------------------------------------------------------------
(* Bounds of the model *)

MaxExisting == 2
MaxNew == 2
MaxItems == 3

(* gap=0.5 (default of _simple_shelf_layout, passed by visualize_plot), in eighths *)
DefaultGap == 4

-----------------------------------------------------------------------------
(* Python values *)

Num(n) == [num |-> TRUE, v |-> n]
NotNum == [num |-> FALSE, v |-> 0]

Str(cs) == [str |-> TRUE, chars |-> cs]
NotStr == [str |-> FALSE, chars |-> <<>>]

Dict(ks, nm, w, l) == [isdict |-> TRUE, keys |-> ks, name |-> nm, width |-> w, length |-> l]
NotDict == [isdict |-> FALSE, keys |-> {}, name |-> NotStr, width |-> NotNum, length |-> NotNum]

List(s) == [islist |-> TRUE, items |-> s]
NotList == [islist |-> FALSE, items |-> <<>>]

Existing(w, l) == Dict({"width", "length"}, NotStr, Num(w), Num(l))
Candidate(cs, w, l) == Dict({"name", "width", "length"}, Str(cs), Num(w), Num(l))

SeqsUpTo(S, n) == UNION {[1..m -> S] : m \in 0..n}

NoValue == [none |-> TRUE]

-----------------------------------------------------------------------------
(* The arguments the model draws from (lengths in eighths of a metre) *)

PlotWidths == {Num(8), Num(0), NotNum}
PlotLengths == {Num(12), Num(2)}
Borders == {Num(1), Num(2), Num(4)}

ExistingKinds == {Existing(6, 6), Existing(4, 5), Existing(0, 4), NotDict}

NewKinds ==
    {Candidate(<<"A">>, 2, 2), Candidate(<<"B">>, 4, 8), Candidate(<<"A">>, 6, 10),
     Candidate(<<" ">>, 2, 2), Candidate(<<"C">>, 4, 0)}

\* _simple_shelf_layout on its own: containers <<max_width, max_length>>
LayoutOrigins == {0, 4}
LayoutContainers == {<<80, 32>>, <<16, 16>>}
LayoutGaps == {0, 2, DefaultGap}
ItemKinds ==
    {Existing(48, 8), Existing(24, 12), Existing(80, 8), Existing(88, 8),
     Existing(8, 40), Existing(8, 8)}

\* visualize_plot: plots of even size, so that usable_w / 2 is a whole number
VizPlots == {<<48, 48, 4>>, <<48, 64, 2>>}
VizExistingKinds == {Existing(30, 30), Existing(12, 12), Existing(40, 8)}
VizFittingKinds == {Candidate(<<"A">>, 8, 8), Candidate(<<"B">>, 12, 8), Candidate(<<"C">>, 20, 16)}

-----------------------------------------------------------------------------
(* Validation helpers *)

\* str.strip(): drop leading and trailing whitespace
RECURSIVE LStrip(_)
LStrip(cs) == IF cs # <<>> /\ Head(cs) = " " THEN LStrip(Tail(cs)) ELSE cs

RECURSIVE RStrip(_)
RStrip(cs) ==
    IF cs # <<>> /\ cs[Len(cs)] = " " THEN RStrip(SubSeq(cs, 1, Len(cs) - 1)) ELSE cs

Strip(cs) == RStrip(LStrip(cs))

ValidatePositiveNumberAllowZero(value) ==
    IF ~value.num THEN "TypeError"
    ELSE IF value.v < 0 THEN "ValueError"
    ELSE "ok"

ValidatePositiveNumber(value) ==
    IF ~value.num THEN "TypeError"
    ELSE IF value.v <= 0 THEN "ValueError"
    ELSE "ok"

ValidateObjectDict(obj, required_keys) ==
    IF ~obj.isdict THEN "TypeError"
    ELSE IF \E key \in required_keys : key \notin obj.keys THEN "ValueError"
    ELSE IF "name" \in required_keys /\ (~obj.name.str \/ Strip(obj.name.chars) = <<>>)
         THEN "ValueError"
    ELSE IF ValidatePositiveNumber(obj.width) # "ok" THEN ValidatePositiveNumber(obj.width)
    ELSE ValidatePositiveNumber(obj.length)

\* the for loops of lines 68-71: the first failure, scanning from index n
RECURSIVE ValidateItems(_, _, _)
ValidateItems(s, required_keys, n) ==
    IF n > Len(s) THEN "ok"
    ELSE IF ValidateObjectDict(s[n], required_keys) # "ok"
         THEN ValidateObjectDict(s[n], required_keys)
    ELSE ValidateItems(s, required_keys, n + 1)

BorderTooLargeStrict(w, l, b) == b * 2 > w \/ b * 2 > l

BorderTooLarge(w, l, b) == b * 2 >= w \/ b * 2 >= l

ValidateInputs(w, l, b, ex, nw) ==
    IF ValidatePositiveNumber(w) # "ok" THEN ValidatePositiveNumber(w)
    ELSE IF ValidatePositiveNumber(l) # "ok" THEN ValidatePositiveNumber(l)
    ELSE IF ValidatePositiveNumber(b) # "ok" THEN ValidatePositiveNumber(b)
    ELSE IF BorderTooLarge(w.v, l.v, b.v) THEN "ValueError"
    ELSE IF ~ex.islist THEN "TypeError"
    ELSE IF ~nw.islist THEN "TypeError"
    ELSE IF ValidateItems(ex.items, {"width", "length"}, 1) # "ok"
         THEN ValidateItems(ex.items, {"width", "length"}, 1)
    ELSE ValidateItems(nw.items, {"name", "width", "length"}, 1)

-----------------------------------------------------------------------------
(* Area computations *)

\* sum(obj["width"] * obj["length"] for obj in existing_objects), in 1/64 m^2
RECURSIVE SumAreas(_)
SumAreas(s) ==
    IF s = <<>> THEN 0 ELSE Head(s).width.v * Head(s).length.v + SumAreas(Tail(s))

Max(a, b) == IF a >= b THEN a ELSE b

Round2Trunc(a) == (100 * a) \div 64

\* round(a, 2) of an area a in 1/64 m^2, as a count of hundredths: Python
\* rounds the exactly-held value to the nearest hundredth, a tie to the even one
Round2(a) ==
    LET q == (100 * a) \div 64
        r == (100 * a) % 64
    IN IF r < 32 THEN q
       ELSE IF r > 32 THEN q + 1
       ELSE IF q % 2 = 0 THEN q ELSE q + 1

\* _areas: (total_area, usable_area) in 1/64 m^2, free_space in hundredths
Areas(w, l, b, ex) ==
    LET usable_w == w - 2 * b
        usable_l == l - 2 * b
        usable_area == usable_w * usable_l
        existing_area == SumAreas(ex)
    IN [total_area |-> w * l,
        usable_area |-> usable_area,
        free_space |-> Round2(Max(0, usable_area - existing_area))]

-----------------------------------------------------------------------------
(* find_fitting_objects *)

\* the loop body with candidates consuming the space they are given
FitStepCumulative(fs, names, adm, obj) ==
    LET area == obj.width.v * obj.length.v
    IN IF 100 * area <= 64 * fs
       THEN [free_space |-> fs - (100 * area) \div 64,
             fitting_names |-> Append(names, obj.name.chars),
             admitted |-> Append(adm, TRUE)]
       ELSE [free_space |-> fs, fitting_names |-> names, admitted |-> Append(adm, FALSE)]

\* the loop body with a strict comparison
FitStepStrict(fs, names, adm, obj) ==
    LET area == obj.width.v * obj.length.v
    IN IF 100 * area < 64 * fs
       THEN [free_space |-> fs,
             fitting_names |-> Append(names, obj.name.chars),
             admitted |-> Append(adm, TRUE)]
       ELSE [free_space |-> fs, fitting_names |-> names, admitted |-> Append(adm, FALSE)]

\* lines 271-273: one iteration of the loop over new_objects
FitStep(fs, names, adm, obj) ==
    LET area == obj.width.v * obj.length.v
    IN IF 100 * area <= 64 * fs
       THEN [free_space |-> fs,
             fitting_names |-> Append(names, obj.name.chars),
             admitted |-> Append(adm, TRUE)]
       ELSE [free_space |-> fs, fitting_names |-> names, admitted |-> Append(adm, FALSE)]

\* line 263: _validate_inputs either returns or raises
Validate ==
    /\ pc = "validate"
    /\ LET v == ValidateInputs(plot_width, plot_length, restricted_border,
                               existing_objects, new_objects)
       IN IF v = "ok"
          THEN pc' = "areas" /\ exc' = exc
          ELSE pc' = "raised" /\ exc' = v
    /\ UNCHANGED <<plot_width, plot_length, restricted_border, existing_objects,
                   new_objects, free_space, fitting_names, i, result, admitted,
                   area_done, calls, prev_new, prev_admitted>>
    /\ UNCHANGED <<layoutVars, vizVars>>

\* line 264: _, _, free_space = _areas(...)
ComputeAreas ==
    /\ pc = "areas"
    /\ free_space' = Areas(plot_width.v, plot_length.v, restricted_border.v,
                           existing_objects.items).free_space
    /\ area_done' = TRUE
    /\ pc' = "check"
    /\ UNCHANGED <<plot_width, plot_length, restricted_border, existing_objects,
                   new_objects, exc, fitting_names, i, result, admitted,
                   calls, prev_new, prev_admitted>>
    /\ UNCHANGED <<layoutVars, vizVars>>

\* lines 266-267: no free space, return at once
ShortCircuit ==
    /\ pc = "check"
    /\ free_space <= 0
    /\ result' = [free_space |-> 0, fitting_objects |-> <<>>]
    /\ admitted' = [n \in 1..Len(new_objects.items) |-> FALSE]
    /\ pc' = "done"
    /\ UNCHANGED <<plot_width, plot_length, restricted_border, existing_objects,
                   new_objects, exc, free_space, fitting_names, i,
                   area_done, calls, prev_new, prev_admitted>>
    /\ UNCHANGED <<layoutVars, vizVars>>

\* line 269: fitting_names = []
EnterLoop ==
    /\ pc = "check"
    /\ ~(free_space <= 0)
    /\ fitting_names' = <<>>
    /\ admitted' = <<>>
    /\ i' = 1
    /\ pc' = "loop"
    /\ UNCHANGED <<plot_width, plot_length, restricted_border, existing_objects,
                   new_objects, exc, free_space, result,
                   area_done, calls, prev_new, prev_admitted>>
    /\ UNCHANGED <<layoutVars, vizVars>>

\* lines 270-273: one candidate
FilterIter ==
    /\ pc = "loop"
    /\ i <= Len(new_objects.items)
    /\ LET st == FitStep(free_space, fitting_names, admitted, new_objects.items[i])
       IN /\ free_space' = st.free_space
          /\ fitting_names' = st.fitting_names
          /\ admitted' = st.admitted
    /\ i' = i + 1
    /\ UNCHANGED <<plot_width, plot_length, restricted_border, existing_objects,
                   new_objects, pc, exc, result,
                   area_done, calls, prev_new, prev_admitted>>
    /\ UNCHANGED <<layoutVars, vizVars>>

\* line 275
Return ==
    /\ pc = "loop"
    /\ i > Len(new_objects.items)
    /\ result' = [free_space |-> free_space, fitting_objects |-> fitting_names]
    /\ pc' = "done"
    /\ UNCHANGED <<plot_width, plot_length, restricted_border, existing_objects,
                   new_objects, exc, free_space, fitting_names, i, admitted,
                   area_done, calls, prev_new, prev_admitted>>
    /\ UNCHANGED <<layoutVars, vizVars>>

\* a caller (line 293) calls find_fitting_objects once more, for the same plot
\* and existing objects, with another list of candidates
CallAgain ==
    /\ pc = "done"
    /\ calls = 1
    /\ \E nw \in SeqsUpTo(NewKinds, MaxNew) : new_objects' = List(nw)
    /\ prev_new' = new_objects.items
    /\ prev_admitted' = admitted
    /\ calls' = calls + 1
    /\ pc' = "validate"
    /\ exc' = NoValue
    /\ free_space' = NoValue
    /\ fitting_names' = NoValue
    /\ i' = 0
    /\ result' = NoValue
    /\ admitted' = <<>>
    /\ area_done' = FALSE
    /\ UNCHANGED <<plot_width, plot_length, restricted_border, existing_objects>>
    /\ UNCHANGED <<layoutVars, vizVars>>

LayoutIdle ==
    /\ items = <<>> /\ start_x = 0 /\ start_y = 0 /\ max_width = 0 /\ max_length = 0
    /\ gap = 0 /\ placed = <<>> /\ x = 0 /\ y = 0 /\ row_h = 0 /\ k = 0 /\ lpc = "idle"

VizIdle ==
    /\ fitting_objects = <<>> /\ existing_pos = <<>> /\ fitting_pos = <<>>

FitLocalsFresh ==
    /\ exc = NoValue /\ free_space = NoValue /\ fitting_names = NoValue /\ i = 0
    /\ result = NoValue /\ admitted = <<>> /\ area_done = FALSE
    /\ calls = 1 /\ prev_new = <<>> /\ prev_admitted = <<>>

\* find_fitting_objects is entered with arbitrary arguments
InitFit ==
    /\ plot_width \in PlotWidths
    /\ plot_length \in PlotLengths
    /\ restricted_border \in Borders
    /\ existing_objects \in {List(s) : s \in SeqsUpTo(ExistingKinds, MaxExisting)} \cup {NotList}
    /\ new_objects \in {List(s) : s \in SeqsUpTo(NewKinds, MaxNew)} \cup {NotList}
    /\ pc = "validate"
    /\ FitLocalsFresh
    /\ LayoutIdle
    /\ VizIdle

NextFit ==
    \/ Validate
    \/ ComputeAreas
    \/ ShortCircuit
    \/ EnterLoop
    \/ FilterIter
    \/ Return
    \/ CallAgain

SpecFit == InitFit /\ [][NextFit]_vars

-----------------------------------------------------------------------------
(* _simple_shelf_layout.  The cursor st is [x, y, row_h, placed]; an entry  *)
(* of placed is <<x, y, item>>.                                             *)

\* the test of line 125 on the length alone
TooLargeLengthOnly(it, mw, ml) == it.length.v > ml

\* line 125: larger than the whole available area
TooLarge(it, mw, ml) == it.width.v > mw \/ it.length.v > ml

\* the new row of lines 129-132 started without the gap between rows
NewRowNoGap(st, it, sx, mw, g) ==
    IF st.x + it.width.v + g > sx + mw
    THEN [st EXCEPT !.x = sx + g, !.y = st.y + st.row_h, !.row_h = 0]
    ELSE st

\* lines 129-132: new row if the item would exceed the width
NewRow(st, it, sx, mw, g) ==
    IF st.x + it.width.v + g > sx + mw
    THEN [st EXCEPT !.x = sx + g, !.y = st.y + st.row_h + g, !.row_h = 0]
    ELSE st

\* the placement of lines 135-140 with the row height set to the last item's
PlaceRowHeightLast(st, it, sy, ml, g) ==
    IF st.y + it.length.v + g > sy + ml
    THEN st
    ELSE [x |-> st.x + it.width.v + g,
          y |-> st.y,
          row_h |-> it.length.v,
          placed |-> Append(st.placed, <<st.x, st.y, it>>)]

\* lines 135-140: skip the item if it exceeds the height, else place it
Place(st, it, sy, ml, g) ==
    IF st.y + it.length.v + g > sy + ml
    THEN st
    ELSE [x |-> st.x + it.width.v + g,
          y |-> st.y,
          row_h |-> Max(st.row_h, it.length.v),
          placed |-> Append(st.placed, <<st.x, st.y, it>>)]

\* lines 122-140: the body of the loop over items
ShelfStep(st, it, sx, sy, mw, ml, g) ==
    IF TooLarge(it, mw, ml) THEN st
    ELSE Place(NewRow(st, it, sx, mw, g), it, sy, ml, g)

\* lines 116-119
LayoutEnter ==
    /\ lpc = "called"
    /\ placed' = <<>>
    /\ x' = start_x + gap
    /\ y' = start_y + gap
    /\ row_h' = 0
    /\ k' = 1
    /\ lpc' = "loop"
    /\ UNCHANGED <<items, start_x, start_y, max_width, max_length, gap>>
    /\ UNCHANGED <<fitVars, vizVars>>

\* lines 121-140: one item
LayoutIter ==
    /\ lpc = "loop"
    /\ k <= Len(items)
    /\ LET st == ShelfStep([x |-> x, y |-> y, row_h |-> row_h, placed |-> placed],
                           items[k], start_x, start_y, max_width, max_length, gap)
       IN /\ x' = st.x
          /\ y' = st.y
          /\ row_h' = st.row_h
          /\ placed' = st.placed
    /\ k' = k + 1
    /\ UNCHANGED <<items, start_x, start_y, max_width, max_length, gap, lpc>>
    /\ UNCHANGED <<fitVars, vizVars>>

\* line 142
LayoutReturn ==
    /\ lpc = "loop"
    /\ k > Len(items)
    /\ lpc' = "returned"
    /\ UNCHANGED <<items, start_x, start_y, max_width, max_length, gap,
                   placed, x, y, row_h, k>>
    /\ UNCHANGED <<fitVars, vizVars>>

FitIdle ==
    /\ plot_width = Num(0) /\ plot_length = Num(0) /\ restricted_border = Num(0)
    /\ existing_objects = List(<<>>) /\ new_objects = List(<<>>)
    /\ FitLocalsFresh

\* _simple_shelf_layout is called with any container, gap >= 0 and items of
\* positive width and length
InitLayout ==
    /\ items \in SeqsUpTo(ItemKinds, MaxItems)
    /\ start_x \in LayoutOrigins
    /\ start_y \in LayoutOrigins
    /\ \E c \in LayoutContainers : max_width = c[1] /\ max_length = c[2]
    /\ gap \in LayoutGaps
    /\ placed = <<>> /\ x = 0 /\ y = 0 /\ row_h = 0 /\ k = 0
    /\ lpc = "called"
    /\ pc = "layout"
    /\ FitIdle
    /\ VizIdle

NextLayout ==
    \/ LayoutEnter
    \/ LayoutIter
    \/ LayoutReturn

SpecLayout == InitLayout /\ [][NextLayout]_vars

-----------------------------------------------------------------------------
(* visualize_plot: the two layout calls *)

\* the container the fitting objects are laid out in, were it the whole usable area
FittingContainerWhole(w, l, b) ==
    [start_x |-> b, start_y |-> b, max_width |-> w - 2 * b, max_length |-> l - 2 * b]

\* lines 164-165, 199-202: the container of the existing objects
ExistingContainer(w, l, b) ==
    [start_x |-> b, start_y |-> b, max_width |-> w - 2 * b, max_length |-> l - 2 * b]

\* lines 164-165, 211, 214-217: the container of the fitting objects
FittingContainer(w, l, b) ==
    LET usable_w == w - 2 * b
        usable_l == l - 2 * b
        half_w == usable_w \div 2
        half_l == usable_l \div 2
    IN [start_x |-> b + half_w, start_y |-> b + half_l,
        max_width |-> half_w, max_length |-> half_l]

\* lines 197-204: existing_pos = _simple_shelf_layout(existing_objects, ...)
VizLayoutExisting ==
    /\ pc = "viz"
    /\ lpc = "idle"
    /\ LET c == ExistingContainer(plot_width.v, plot_length.v, restricted_border.v)
       IN /\ start_x' = c.start_x
          /\ start_y' = c.start_y
          /\ max_width' = c.max_width
          /\ max_length' = c.max_length
    /\ items' = existing_objects.items
    /\ gap' = DefaultGap
    /\ lpc' = "called"
    /\ pc' = "viz_existing"
    /\ UNCHANGED <<placed, x, y, row_h, k>>
    /\ UNCHANGED <<plot_width, plot_length, restricted_border, existing_objects,
                   new_objects, exc, free_space, fitting_names, i, result,
                   admitted, area_done, calls, prev_new, prev_admitted>>
    /\ UNCHANGED vizVars

\* lines 205-219: the first call has returned; fitting_pos = _simple_shelf_layout(...)
VizLayoutFitting ==
    /\ pc = "viz_existing"
    /\ lpc = "returned"
    /\ existing_pos' = placed
    /\ LET c == FittingContainer(plot_width.v, plot_length.v, restricted_border.v)
       IN /\ start_x' = c.start_x
          /\ start_y' = c.start_y
          /\ max_width' = c.max_width
          /\ max_length' = c.max_length
    /\ items' = fitting_objects
    /\ gap' = DefaultGap
    /\ lpc' = "called"
    /\ pc' = "viz_fitting"
    /\ UNCHANGED <<placed, x, y, row_h, k>>
    /\ UNCHANGED <<plot_width, plot_length, restricted_border, existing_objects,
                   new_objects, exc, free_space, fitting_names, i, result,
                   admitted, area_done, calls, prev_new, prev_admitted>>
    /\ UNCHANGED <<fitting_objects, fitting_pos>>

\* lines 220-240: the second call has returned, the rectangles are drawn
VizFinish ==
    /\ pc = "viz_fitting"
    /\ lpc = "returned"
    /\ fitting_pos' = placed
    /\ lpc' = "idle"
    /\ pc' = "viz_done"
    /\ UNCHANGED <<items, start_x, start_y, max_width, max_length, gap,
                   placed, x, y, row_h, k>>
    /\ UNCHANGED <<plot_width, plot_length, restricted_border, existing_objects,
                   new_objects, exc, free_space, fitting_names, i, result,
                   admitted, area_done, calls, prev_new, prev_admitted>>
    /\ UNCHANGED <<fitting_objects, existing_pos>>

\* visualize_plot is called with a valid plot, existing objects and fitting objects
InitViz ==
    /\ \E p \in VizPlots :
          /\ plot_width = Num(p[1])
          /\ plot_length = Num(p[2])
          /\ restricted_border = Num(p[3])
    /\ existing_objects \in {List(s) : s \in SeqsUpTo(VizExistingKinds, MaxExisting)}
    /\ fitting_objects \in SeqsUpTo(VizFittingKinds, MaxNew)
    /\ new_objects = List(<<>>)
    /\ pc = "viz"
    /\ FitLocalsFresh
    /\ LayoutIdle
    /\ existing_pos = <<>> /\ fitting_pos = <<>>

NextViz ==
    \/ VizLayoutExisting
    \/ LayoutEnter
    \/ LayoutIter
    \/ LayoutReturn
    \/ VizLayoutFitting
    \/ VizFinish

SpecViz == InitViz /\ [][NextViz]_vars

-----------------------------------------------------------------------------
(* Properties of find_fitting_objects (checked under SpecFit) *)

Abs(n) == IF n < 0 THEN 0 - n ELSE n

\* the plot parameters are positive numbers
PositivePlot ==
    /\ plot_width.num /\ plot_width.v > 0
    /\ plot_length.num /\ plot_length.v > 0
    /\ restricted_border.num /\ restricted_border.v > 0

\* the border leaves a usable interior
UsablePlot ==
    /\ PositivePlot
    /\ 2 * restricted_border.v < plot_width.v
    /\ 2 * restricted_border.v < plot_length.v

\* (W-2b)*(L-2b) minus the areas of the existing objects, in 1/64 m^2
RawFree ==
    LET ex == existing_objects.items
        area[n \in 0..Len(ex)] ==
            IF n = 0 THEN 0 ELSE area[n - 1] + ex[n].width.v * ex[n].length.v
    IN (plot_width.v - 2 * restricted_border.v) * (plot_length.v - 2 * restricted_border.v)
       - area[Len(ex)]

\* C1: when find_fitting_objects returns, free_space is max(0, (W-2b)(L-2b) - sum of
\* the existing areas) rounded to two decimals: a whole number of hundredths that is
\* never negative and lies within half a hundredth of the clamped exact value.
C1_FreeSpaceFormula ==
    pc = "done" =>
        LET raw == IF RawFree > 0 THEN RawFree ELSE 0
        IN /\ result.free_space >= 0
           /\ Abs(64 * result.free_space - 100 * raw) <= 32

\* a call returned with existing objects on the plot and a free space that is not a
\* whole number of hundredths before rounding
C1_Witness ==
    /\ pc = "done"
    /\ Len(existing_objects.items) = 2
    /\ RawFree > 0
    /\ (100 * RawFree) % 64 # 0
    /\ result.free_space > 0

\* the indices of the candidates whose area is at most fs hundredths
FitIndices(fs) ==
    {n \in 1..Len(new_objects.items) :
        100 * (new_objects.items[n].width.v * new_objects.items[n].length.v) <= 64 * fs}

\* C2: when find_fitting_objects returns, fitting_objects is the names of exactly the
\* candidates whose width*length <= free_space, in the order of new_objects, with
\* duplicate names kept; it is empty when free_space is 0.
C2_FittingNamesExact ==
    pc = "done" =>
        LET fit == result.fitting_objects
            idx == FitIndices(result.free_space)
        IN /\ Len(fit) = Cardinality(idx)
           /\ \A n \in idx :
                 fit[Cardinality({m \in idx : m <= n})] = new_objects.items[n].name.chars
           /\ (result.free_space = 0 => fit = <<>>)

\* a call returned both candidates of a list that use the same name
C2_Witness ==
    /\ pc = "done"
    /\ Len(new_objects.items) = 2
    /\ new_objects.items[1] # new_objects.items[2]
    /\ result.fitting_objects = <<<<"A">>, <<"A">>>>

\* C3: for the same plot and existing objects, a candidate that occurs in the
\* candidate lists of two calls is admitted by both or rejected by both, whatever
\* else the lists hold and wherever it stands in them.
C3_NonCumulative ==
    (pc = "done" /\ calls = 2) =>
        \A a \in 1..Len(prev_new) : \A b \in 1..Len(new_objects.items) :
            prev_new[a] = new_objects.items[b] => prev_admitted[a] = admitted[b]

\* two calls returned; a candidate stood alone in the first list and was admitted,
\* and stands second, behind another admitted candidate, in the second list
C3_Witness ==
    /\ pc = "done"
    /\ calls = 2
    /\ Len(prev_new) = 1
    /\ Len(new_objects.items) = 2
    /\ prev_new[1] = new_objects.items[2]
    /\ prev_new[1] # new_objects.items[1]
    /\ prev_admitted[1]
    /\ admitted[1]

\* C4: with positive numeric width, length and border such that 2*border >= width or
\* 2*border >= length, find_fitting_objects raises ValueError and returns nothing,
\* whatever the two lists are.
C4_BorderTooLargeRaises ==
    (/\ PositivePlot
     /\ \/ 2 * restricted_border.v >= plot_width.v
        \/ 2 * restricted_border.v >= plot_length.v
     /\ pc # "validate")
    => (pc = "raised" /\ exc = "ValueError" /\ result = NoValue)

\* the call raised for a border of exactly half the width, with an existing_objects
\* argument that is no list and a candidate list holding a blank name
C4_Witness ==
    /\ pc = "raised"
    /\ exc = "ValueError"
    /\ PositivePlot
    /\ 2 * restricted_border.v = plot_width.v
    /\ ~existing_objects.islist
    /\ new_objects.islist
    /\ Len(new_objects.items) = 1
    /\ new_objects.items[1].name.chars = <<" ">>

\* a record with its required keys, numeric dimensions and (for a candidate) a name
\* that is a string with a non-blank character
WellFormedButForSign(obj, required_keys) ==
    /\ obj.isdict
    /\ required_keys \subseteq obj.keys
    /\ obj.width.num
    /\ obj.length.num
    /\ "name" \in required_keys =>
          (obj.name.str /\ \E n \in 1..Len(obj.name.chars) : obj.name.chars[n] # " ")

NonPositive(obj) == obj.width.v <= 0 \/ obj.length.v <= 0

\* valid plot, well-formed records, and at least one width or length <= 0
C5_Case ==
    /\ UsablePlot
    /\ existing_objects.islist
    /\ new_objects.islist
    /\ \A n \in 1..Len(existing_objects.items) :
          WellFormedButForSign(existing_objects.items[n], {"width", "length"})
    /\ \A n \in 1..Len(new_objects.items) :
          WellFormedButForSign(new_objects.items[n], {"name", "width", "length"})
    /\ \/ \E n \in 1..Len(existing_objects.items) : NonPositive(existing_objects.items[n])
       \/ \E n \in 1..Len(new_objects.items) : NonPositive(new_objects.items[n])

\* C5: validation is a gate before any arithmetic: with a valid plot and records that
\* are well-formed except that some width or length is <= 0, the call raises
\* ValueError, no area or free space was computed, and no result exists.
C5_ValidationGate ==
    (C5_Case /\ pc # "validate") =>
        /\ pc = "raised"
        /\ exc = "ValueError"
        /\ ~area_done
        /\ free_space = NoValue
        /\ fitting_names = NoValue
        /\ result = NoValue

\* the call raised for a candidate of length 0 that follows a valid candidate, the
\* existing objects being valid
C5_Witness ==
    /\ C5_Case
    /\ pc = "raised"
    /\ Len(existing_objects.items) = 1
    /\ ~NonPositive(existing_objects.items[1])
    /\ Len(new_objects.items) = 2
    /\ ~NonPositive(new_objects.items[1])
    /\ new_objects.items[2].length.v = 0

-----------------------------------------------------------------------------
(* Properties of _simple_shelf_layout (checked under SpecLayout) *)

\* the rectangles of two entries <<x, y, item>> have a common interior point
Intersect(p, q) ==
    /\ p[1] < q[1] + q[3].width.v
    /\ q[1] < p[1] + p[3].width.v
    /\ p[2] < q[2] + q[3].length.v
    /\ q[2] < p[2] + p[3].length.v

\* C6: at every point of the scan, no two rectangles placed so far by one call of
\* the shelf layout have a common interior point.
C6_NoOverlap ==
    \A m \in 1..Len(placed) : \A n \in 1..Len(placed) :
        m # n => ~Intersect(placed[m], placed[n])

\* a scan of three items ended with one item skipped and the other two placed in
\* different rows
C6_Witness ==
    /\ lpc = "returned"
    /\ Len(items) = 3
    /\ Len(placed) = 2
    /\ placed[2][2] > placed[1][2]
    /\ gap > 0

\* the item the scan is about to handle
ScanAt == lpc = "loop" /\ k <= Len(items)

\* C7: the shelf layout never returns an item wider than max_width or longer than
\* max_length; the scan steps over such an item leaving the cursor (x, y, row
\* height) and the placements as they were.
C7_OversizedSkipped ==
    [][/\ \A n \in 1..Len(placed') :
             /\ placed'[n][3].width.v <= max_width
             /\ placed'[n][3].length.v <= max_length
       /\ (ScanAt /\ (items[k].width.v > max_width \/ items[k].length.v > max_length))
             => (x' = x /\ y' = y /\ row_h' = row_h /\ placed' = placed /\ k' = k + 1)]_vars

\* the scan returned having placed the first and third items, the second being wider
\* than the container
C7_Witness ==
    /\ lpc = "returned"
    /\ Len(items) = 3
    /\ items[2].width.v > max_width
    /\ Len(placed) = 2
    /\ placed[1][3] = items[1]
    /\ placed[2][3] = items[3]

\* C9: an item within the container's extents that would cross the right edge at the
\* cursor starts a new row at (start_x + gap, y + row_h + gap) with row height 0, and
\* is placed there whenever y + length + gap <= start_y + max_length holds there;
\* otherwise it is skipped with the cursor left at the start of the new row.
C9_NewRowPlaces ==
    [][(/\ ScanAt
        /\ items[k].width.v <= max_width
        /\ items[k].length.v <= max_length
        /\ x + items[k].width.v + gap > start_x + max_width)
       => LET nx == start_x + gap
              ny == y + row_h + gap
          IN IF ny + items[k].length.v + gap <= start_y + max_length
             THEN /\ placed' = Append(placed, <<nx, ny, items[k]>>)
                  /\ x' = nx + items[k].width.v + gap
                  /\ y' = ny
                  /\ row_h' = items[k].length.v
             ELSE /\ placed' = placed
                  /\ x' = nx
                  /\ y' = ny
                  /\ row_h' = 0]_vars

\* container width 10 m, gap 0.5 m, two items of width 6 m: the second is placed at
\* the start of a second row
C9_Witness ==
    /\ max_width = 80
    /\ gap = 4
    /\ Len(placed) = 2
    /\ placed[1][3].width.v = 48
    /\ placed[2][3].width.v = 48
    /\ placed[1][1] = start_x + gap
    /\ placed[2][1] = start_x + gap
    /\ placed[2][2] = placed[1][2] + placed[1][3].length.v + gap

\* C10: every rectangle placed by the shelf layout lies inside its container.
C10_InsideContainer ==
    \A n \in 1..Len(placed) :
        /\ start_x <= placed[n][1]
        /\ placed[n][1] + placed[n][3].width.v <= start_x + max_width
        /\ start_y <= placed[n][2]
        /\ placed[n][2] + placed[n][3].length.v <= start_y + max_length

-----------------------------------------------------------------------------
(* Properties of the two layout calls of visualize_plot (checked under SpecViz) *)

\* C8 as stated: no rectangle placed for an existing object intersects a rectangle
\* placed for a fitting object.
C8_NoCrossSetOverlap ==
    pc = "viz_done" =>
        \A m \in 1..Len(existing_pos) : \A n \in 1..Len(fitting_pos) :
            ~Intersect(existing_pos[m], fitting_pos[n])

\* the lower-left corner from which the fitting objects are placed
FittingCorner ==
    LET half_w == (plot_width.v - 2 * restricted_border.v) \div 2
        half_l == (plot_length.v - 2 * restricted_border.v) \div 2
    IN <<restricted_border.v + half_w + DefaultGap, restricted_border.v + half_l + DefaultGap>>

\* the rectangle of an entry does not reach into the part of the plot right of and
\* above the corner c
StaysOutside(p, c) ==
    \/ p[1] + p[3].width.v <= c[1]
    \/ p[2] + p[3].length.v <= c[2]

\* C8, amended: the container of the fitting objects is the top-right quarter of the
\* container of the existing objects; a rectangle placed for an existing object
\* that does not reach beyond x = border + usable_w/2 + gap or does not reach beyond
\* y = border + usable_l/2 + gap intersects no rectangle placed for a fitting object.
C8_NoOverlapOutsideQuarter ==
    pc = "viz_done" =>
        \A m \in 1..Len(existing_pos) : \A n \in 1..Len(fitting_pos) :
            StaysOutside(existing_pos[m], FittingCorner)
                => ~Intersect(existing_pos[m], fitting_pos[n])

\* both layouts placed two rectangles, and every existing rectangle stays outside the
\* quarter the fitting objects are placed in
C8_Witness ==
    /\ pc = "viz_done"
    /\ Len(existing_pos) = 2
    /\ Len(fitting_pos) = 2
    /\ \A m \in 1..Len(existing_pos) : StaysOutside(existing_pos[m], FittingCorner)

=============================================================================
